---- MODULE Spec2Model ----
(***************************************************************************)
(* A model of subsCollector.py: the YouTube subtitle generator.            *)
(*                                                                         *)
(* Strings the program inspects character by character (URLs, titles,      *)
(* file names) are sequences of one-character strings; transcripts, which  *)
(* the program only tests for emptiness and copies, are plain strings.     *)
(* An Optional value is a sequence of length 0 (None) or 1.                *)
(***************************************************************************)
EXTENDS Integers, Sequences, FiniteSets, TLC

VARIABLES
    ffmpeg,           \* environment: shutil.which('ffmpeg') finds the binary
    pc,               \* position of control in main and its callees
    exit_code,        \* Optional: the process's exit status once it ended
    args,             \* Optional: the namespace parse_arguments returned
    config,           \* AppConfig (the fields the model reads)
    generator,        \* TRUE once SubtitleGenerator.__init__ ran (model loaded, mkdir done)
    files,            \* the filesystem: function from the paths that exist to their content
    video_urls,       \* the list generate_batch_subtitles iterates
    i,                \* enumerate index of the batch loop (1-based)
    results,          \* the list generate_batch_subtitles accumulates
    video_url,        \* argument of the running item processor
    video_info,       \* Optional: local video_info of the running item processor
    safe_filename,    \* Optional: local safe_filename
    final_audio_path, \* Optional: local final_audio_path ('final_audio_path' in locals())
    transcribed,      \* Optional: local result of model.transcribe, its "text"
    ret,              \* Optional: value the item processor returned
    called,           \* what the running item processor did so far: the external
                      \* operations it invoked and the text file it wrote to
    itemlog,          \* per finished batch item: the progress / failure line of lines 248-250
    logged            \* messages main logged at the end of single and interactive mode

vars == <<ffmpeg, pc, exit_code, args, config, generator, files, video_urls, i,
          results, video_url, video_info, safe_filename, final_audio_path,
          transcribed, ret, called, itemlog, logged>>

itemVars == <<video_info, safe_filename, final_audio_path, transcribed>>

(***************************************************************************)
(* Bounds of the model.                                                    *)
(***************************************************************************)
MaxUrls == 2        \* longest batch (command line list or file lines)
MaxLen == 3         \* longest title drawn for the filename sanitizer alone

(***************************************************************************)
(* Optional values.                                                        *)
(***************************************************************************)
None == <<>>
Some(x) == <<x>>
IsSome(o) == Len(o) = 1
Get(o) == o[1]

Min(a, b) == IF a < b THEN a ELSE b

(***************************************************************************)
(* Characters.  str.isalnum is modelled on the characters the model uses.  *)
(***************************************************************************)
AlnumChars == {"a", "b", "e", "k", "l", "r", "t", "y", "M", "P", "T", "1"}
isalnum(char) == char \in AlnumChars

IsSafeChar(char) == isalnum(char) \/ char \in {" ", "-", "_"}

max_filename_length == 100

\* A mutant: the spaces are kept instead of replaced.
create_safe_filename_keeps_spaces(video_title, max_length) ==
    LET safe_chars == SelectSeq(video_title, IsSafeChar)
    IN  SubSeq(safe_chars, 1, Min(max_length, Len(safe_chars)))

\* YouTubeAudioExtractor.create_safe_filename, with config.max_filename_length
\* as its second parameter.
create_safe_filename(video_title, max_length) ==
    LET safe_chars == SelectSeq(video_title, IsSafeChar)
        safe_name  == [k \in 1..Len(safe_chars) |->
                          IF safe_chars[k] = " " THEN "_" ELSE safe_chars[k]]
    IN  SubSeq(safe_name, 1, Min(max_length, Len(safe_name)))

(***************************************************************************)
(* Paths.  A path is its parent directory, its final component and that    *)
(* component's suffix.  No final component of the model holds a "."  (the  *)
(* sanitizer drops it), so Path.with_suffix only ever sets the suffix.     *)
(***************************************************************************)
CurDir == <<".">>
output_directory == <<"d", "o", "w", "n", "l", "o", "a", "d", "s">>
audio_suffix == ".mp3"
text_suffix == ".txt"

\* config.output_directory / safe_filename: joining the empty string gives
\* the directory itself.
PathJoin(directory, name) ==
    IF name = <<>>
    THEN [dir |-> CurDir, name |-> directory, suffix |-> ""]
    ELSE [dir |-> directory, name |-> name, suffix |-> ""]

with_suffix(path, suffix) == [path EXCEPT !.suffix = suffix]

audio_path(name) == PathJoin(output_directory, name)
text_path(name) == with_suffix(audio_path(name), text_suffix)
\* what download_audio returns for output_path
audio_file_path(output_path) == with_suffix(output_path, audio_suffix)

exists(fs, path) == path \in DOMAIN fs
unlink(fs, path) == [p \in DOMAIN fs \ {path} |-> fs[p]]
write(fs, path, data) ==
    [p \in DOMAIN fs \cup {path} |-> IF p = path THEN data ELSE fs[p]]
NoFiles == [p \in {} |-> ""]

(***************************************************************************)
(* URLs.                                                                   *)
(***************************************************************************)
youtube_com == <<"y", "o", "u", "t", "u", "b", "e", ".", "c", "o", "m">>
youtu_be == <<"y", "o", "u", "t", "u", ".", "b", "e">>

\* Python's  domain in url
Contains(url, domain) ==
    \E k \in 0..(Len(url) - Len(domain)) :
        SubSeq(url, k + 1, k + Len(domain)) = domain

\* A mutant: any(domain for domain in [...]), true of every URL.
validate_youtube_url_any(url) ==
    \E domain \in {youtube_com, youtu_be} : domain # <<>> /\ Len(url) >= 0

validate_youtube_url(url) ==
    \E domain \in {youtube_com, youtu_be} : Contains(url, domain)

IsSpace(char) == char = " "

RECURSIVE lstrip(_)
lstrip(s) == IF s # <<>> /\ IsSpace(Head(s)) THEN lstrip(Tail(s)) ELSE s

RECURSIVE rstrip(_)
rstrip(s) ==
    IF s # <<>> /\ IsSpace(s[Len(s)]) THEN rstrip(SubSeq(s, 1, Len(s) - 1)) ELSE s

\* str.strip()
strip(s) == rstrip(lstrip(s))

\* The inputs of the model.
UrlShort == <<"y", "o", "u", "t", "u", ".", "b", "e", "/", "a">>
UrlPadded == <<" ", "y", "o", "u", "t", "u", "b", "e", ".", "c", "o", "m", " ">>
UrlOther == <<"v", "i", "m", "e", "o">>
BlankLine == <<" ">>
Urls == {UrlShort, UrlPadded, UrlOther}
Lines == Urls \cup {BlankLine}

SeqsUpTo(S, n) == UNION {[1..k -> S] : k \in 0..n}

OutputFormats == {"txt", "csv", "json", "all"}

\* What the external services can answer.
VideoInfos ==
    { [title |-> <<"a">>, duration |-> Some(60)],
      [title |-> <<"a", "!">>, duration |-> None],
      [title |-> <<"!">>, duration |-> Some(5)] }
Transcripts == {"", "hello", "world"}
DownloadOutcomes == {"ok", "no_file", "raises", "raises_partial"}
WriteOutcomes == {"ok", "open_raises", "write_raises"}

(***************************************************************************)
(* parse_arguments: the three modes exclude each other; none of them is    *)
(* the interactive mode.  --batch-urls takes at least one URL.             *)
(***************************************************************************)
NoMode == [url |-> None, batch_file |-> None, batch_urls |-> None]

ArgsSet ==
    { [m EXCEPT !.output_format = f] :
        m \in { [NoMode EXCEPT !.url = Some(u)] @@ [output_format |-> "txt"] : u \in Urls }
              \cup { [NoMode EXCEPT !.batch_file = Some("urls.txt")] @@ [output_format |-> "txt"] }
              \cup { [NoMode EXCEPT !.batch_urls = Some(us)] @@ [output_format |-> "txt"] :
                        us \in SeqsUpTo(Urls, MaxUrls) \ {<<>>} }
              \cup { NoMode @@ [output_format |-> "txt"] },
        f \in OutputFormats }

\* AppConfig's defaults; main sets output_directory and default_model only.
AppConfig ==
    [max_filename_length |-> max_filename_length, audio_suffix |-> audio_suffix]

Init ==
    /\ ffmpeg \in BOOLEAN
    /\ pc = "check_installation"
    /\ exit_code = None
    /\ args = None
    /\ config = AppConfig
    /\ generator = FALSE
    /\ files = NoFiles
    /\ video_urls = <<>>
    /\ i = 1
    /\ results = <<>>
    /\ video_url = <<>>
    /\ video_info = None
    /\ safe_filename = None
    /\ final_audio_path = None
    /\ transcribed = None
    /\ ret = None
    /\ called = {}
    /\ itemlog = <<>>
    /\ logged = {}

batchVars == <<video_urls, i, results, itemlog>>
callVars == <<video_url, video_info, safe_filename, final_audio_path,
              transcribed, ret, called>>

(***************************************************************************)
(* main, up to the choice of mode.                                         *)
(***************************************************************************)
\* A mutant: the missing binary is logged but the run goes on.
CheckInstallation_NoRaise ==
    /\ pc = "check_installation"
    /\ pc' = "parse_arguments"
    /\ UNCHANGED <<ffmpeg, exit_code, args, config, generator, files, logged>>
    /\ UNCHANGED <<batchVars, callVars>>

\* FFmpegValidator.check_installation: SystemExit(1) is no Exception, so
\* main's handler lets it end the process.
CheckInstallation ==
    /\ pc = "check_installation"
    /\ IF ffmpeg
       THEN pc' = "parse_arguments" /\ exit_code' = exit_code
       ELSE pc' = "exited" /\ exit_code' = Some(1)
    /\ UNCHANGED <<ffmpeg, args, config, generator, files, logged>>
    /\ UNCHANGED <<batchVars, callVars>>

ParseArguments ==
    /\ pc = "parse_arguments"
    /\ \E a \in ArgsSet : args' = Some(a)
    /\ pc' = "init_generator"
    /\ UNCHANGED <<ffmpeg, exit_code, config, generator, files, logged>>
    /\ UNCHANGED <<batchVars, callVars>>

\* AppConfig(...) and SubtitleGenerator.__init__: loads the model, creates
\* the output directory.
InitGenerator ==
    /\ pc = "init_generator"
    /\ config' = AppConfig
    /\ generator' = TRUE
    /\ pc' = "dispatch"
    /\ UNCHANGED <<ffmpeg, exit_code, args, files, logged>>
    /\ UNCHANGED <<batchVars, callVars>>

\* main returns normally
Finish ==
    /\ pc' = "done"
    /\ exit_code' = Some(0)

\* the state a call of an item processor starts in
StartCall(url) ==
    /\ video_url' = url
    /\ video_info' = None
    /\ safe_filename' = None
    /\ final_audio_path' = None
    /\ transcribed' = None
    /\ ret' = None
    /\ called' = {}

\* main, "if args.url"
MainSingleUrl ==
    /\ pc = "dispatch"
    /\ IsSome(Get(args).url)
    /\ IF ~validate_youtube_url(Get(Get(args).url))
       THEN Finish /\ UNCHANGED callVars
       ELSE /\ pc' = "g_get_video_info"
            /\ StartCall(Get(Get(args).url))
            /\ UNCHANGED exit_code
    /\ UNCHANGED <<ffmpeg, args, config, generator, files, logged, batchVars>>

\* main, the interactive mode: input("...").strip()
MainInteractive ==
    /\ pc = "dispatch"
    /\ Get(args).url = None /\ Get(args).batch_file = None /\ Get(args).batch_urls = None
    /\ \E typed \in Lines \cup {<<>>} :
        LET url == strip(typed)
        IN  IF url = <<>> \/ ~validate_youtube_url(url)
            THEN Finish /\ UNCHANGED callVars
            ELSE /\ pc' = "g_get_video_info"
                 /\ StartCall(url)
                 /\ UNCHANGED exit_code
    /\ UNCHANGED <<ffmpeg, args, config, generator, files, logged, batchVars>>

\* process_batch_from_file on a file that exists: its stripped non-blank
\* lines; a file that cannot be read gives the empty list.
process_batch_from_file(file) ==
    IF file = None
    THEN <<>>
    ELSE LET stripped == [k \in 1..Len(Get(file)) |-> strip(Get(file)[k])]
         IN  SelectSeq(stripped, LAMBDA line : line # <<>>)

\* generate_batch_subtitles, up to its loop
StartBatch(urls) ==
    /\ video_urls' = urls
    /\ results' = <<>>
    /\ i' = 1
    /\ itemlog' = <<>>
    /\ pc' = "batch_loop"

\* main, "elif args.batch_file"
MainBatchFile ==
    /\ pc = "dispatch"
    /\ IsSome(Get(args).batch_file)
    /\ \E file \in {None} \cup {Some(ls) : ls \in SeqsUpTo(Lines, MaxUrls)} :
        LET urls == process_batch_from_file(file)
        IN  IF urls = <<>>
            THEN Finish /\ UNCHANGED batchVars
            ELSE StartBatch(urls) /\ UNCHANGED exit_code
    /\ UNCHANGED <<ffmpeg, args, config, generator, files, logged, callVars>>

\* main, "elif args.batch_urls"
MainBatchUrls ==
    /\ pc = "dispatch"
    /\ IsSome(Get(args).batch_urls)
    /\ LET valid_urls == SelectSeq(Get(Get(args).batch_urls), validate_youtube_url)
       IN  IF valid_urls = <<>>
           THEN Finish /\ UNCHANGED batchVars
           ELSE StartBatch(valid_urls) /\ UNCHANGED exit_code
    /\ UNCHANGED <<ffmpeg, args, config, generator, files, logged, callVars>>

(***************************************************************************)
(* The external services, as the effect of each outcome on the files.      *)
(***************************************************************************)
\* yt_dlp's download and FFmpegExtractAudio: the tool appends the audio
\* suffix to output_path.  It can end normally with or without the file in
\* place, and raise with or without a partly written file left there.
download_audio_files(fs, output_path, outcome) ==
    CASE outcome = "ok" -> write(fs, audio_file_path(output_path), "audio")
      [] outcome = "raises_partial" -> write(fs, audio_file_path(output_path), "partial")
      [] OTHER -> fs

\* A mutant: a write that keeps a file that is already there (mode 'x'
\* with the error swallowed).
write_text_files_keep(fs, path, text, outcome) ==
    CASE outcome = "ok" -> IF exists(fs, path) THEN fs ELSE write(fs, path, text)
      [] outcome = "write_raises" -> write(fs, path, "")
      [] OTHER -> fs

\* Path.write_text: open(path, 'w') creates or truncates the file, then the
\* text is written.  open can raise (nothing changes) and the write can
\* raise (the truncated file stays).
write_text_files(fs, path, text, outcome) ==
    CASE outcome = "ok" -> write(fs, path, text)
      [] outcome = "write_raises" -> write(fs, path, "")
      [] OTHER -> fs

\* what a call of write_text with this outcome did to the text file
written(outcome) ==
    CASE outcome = "ok" -> {"text_file_written"}
      [] outcome = "write_raises" -> {"text_file_truncated"}
      [] OTHER -> {}

(***************************************************************************)
(* SubtitleGenerator.generate_single_subtitle_detailed, statement by       *)
(* statement.  A raise inside the try block moves to d_except.             *)
(***************************************************************************)
Return(value) == ret' = value

\* lines 191-193
D_Validate ==
    /\ pc = "d_validate"
    /\ IF ~validate_youtube_url(video_url)
       THEN Return(None) /\ pc' = "d_returned"
       ELSE pc' = "d_get_video_info" /\ UNCHANGED ret
    /\ UNCHANGED <<ffmpeg, exit_code, args, config, generator, files, logged>>
    /\ UNCHANGED <<batchVars, video_url, itemVars, called>>

\* line 195
D_GetVideoInfo ==
    /\ pc = "d_get_video_info"
    /\ called' = called \cup {"get_video_info"}
    /\ \/ pc' = "d_except" /\ UNCHANGED video_info
       \/ \E info \in VideoInfos :
            video_info' = Some(info) /\ pc' = "d_create_safe_filename"
    /\ UNCHANGED <<ffmpeg, exit_code, args, config, generator, files, logged>>
    /\ UNCHANGED <<batchVars, video_url, safe_filename, final_audio_path,
                   transcribed, ret>>

\* lines 196-201
D_CreateSafeFilename ==
    /\ pc = "d_create_safe_filename"
    /\ safe_filename' =
         Some(create_safe_filename(Get(video_info).title, config.max_filename_length))
    /\ pc' = "d_download_audio"
    /\ UNCHANGED <<ffmpeg, exit_code, args, config, generator, files, logged>>
    /\ UNCHANGED <<batchVars, video_url, video_info, final_audio_path,
                   transcribed, ret, called>>

\* line 202: final_audio_path is bound only when download_audio returns
D_DownloadAudio ==
    /\ pc = "d_download_audio"
    /\ called' = called \cup {"download_audio"}
    /\ \E outcome \in DownloadOutcomes :
        LET output_path == audio_path(Get(safe_filename))
        IN  /\ files' = download_audio_files(files, output_path, outcome)
            /\ IF outcome \in {"ok", "no_file"}
               THEN /\ final_audio_path' = Some(audio_file_path(output_path))
                    /\ pc' = "d_exists"
               ELSE /\ UNCHANGED final_audio_path
                    /\ pc' = "d_except"
    /\ UNCHANGED <<ffmpeg, exit_code, args, config, generator, logged>>
    /\ UNCHANGED <<batchVars, video_url, video_info, safe_filename,
                   transcribed, ret>>

\* lines 204-205
D_Exists ==
    /\ pc = "d_exists"
    /\ pc' = IF exists(files, Get(final_audio_path)) THEN "d_transcribe" ELSE "d_except"
    /\ UNCHANGED <<ffmpeg, exit_code, args, config, generator, files, logged>>
    /\ UNCHANGED <<batchVars, callVars>>

\* line 207
D_Transcribe ==
    /\ pc = "d_transcribe"
    /\ called' = called \cup {"transcribe"}
    /\ \/ pc' = "d_except" /\ UNCHANGED transcribed
       \/ \E text \in Transcripts :
            transcribed' = Some(text) /\ pc' = "d_unlink"
    /\ UNCHANGED <<ffmpeg, exit_code, args, config, generator, files, logged>>
    /\ UNCHANGED <<batchVars, video_url, video_info, safe_filename,
                   final_audio_path, ret>>

\* line 210
D_Unlink ==
    /\ pc = "d_unlink"
    /\ files' = unlink(files, Get(final_audio_path))
    /\ pc' = "d_write_text"
    /\ UNCHANGED <<ffmpeg, exit_code, args, config, generator, logged>>
    /\ UNCHANGED <<batchVars, callVars>>

\* line 213
D_WriteText ==
    /\ pc = "d_write_text"
    /\ \E outcome \in WriteOutcomes :
        /\ files' = write_text_files(files, text_path(Get(safe_filename)),
                                     Get(transcribed), outcome)
        /\ called' = called \cup {"write_text"}
                       \cup written(outcome)
        /\ pc' = IF outcome = "ok" THEN "d_return" ELSE "d_except"
    /\ UNCHANGED <<ffmpeg, exit_code, args, config, generator, logged>>
    /\ UNCHANGED <<batchVars, video_url, itemVars, ret>>

\* lines 215-223; duration None stands for 'Unknown', processed_at is left out
D_Return ==
    /\ pc = "d_return"
    /\ Return(Some([url        |-> video_url,
                    title      |-> Get(video_info).title,
                    transcript |-> Get(transcribed),
                    filename   |-> Get(safe_filename),
                    text_file  |-> text_path(Get(safe_filename)),
                    duration   |-> Get(video_info).duration]))
    /\ pc' = "d_returned"
    /\ UNCHANGED <<ffmpeg, exit_code, args, config, generator, files, logged>>
    /\ UNCHANGED <<batchVars, video_url, itemVars, called>>

\* lines 225-229
D_Except ==
    /\ pc = "d_except"
    /\ files' = IF IsSome(final_audio_path) /\ exists(files, Get(final_audio_path))
                THEN unlink(files, Get(final_audio_path))
                ELSE files
    /\ Return(None)
    /\ pc' = "d_returned"
    /\ UNCHANGED <<ffmpeg, exit_code, args, config, generator, logged>>
    /\ UNCHANGED <<batchVars, video_url, itemVars, called>>

(***************************************************************************)
(* SubtitleGenerator.generate_batch_subtitles.                             *)
(***************************************************************************)
\* lines 243-245, and the return of line 252 once the list is exhausted
BatchLoop ==
    /\ pc = "batch_loop"
    /\ IF i <= Len(video_urls)
       THEN pc' = "d_validate" /\ StartCall(strip(video_urls[i]))
       ELSE pc' = "batch_report" /\ UNCHANGED callVars
    /\ UNCHANGED <<ffmpeg, exit_code, args, config, generator, files, logged, batchVars>>

\* the line logged for the item: its URL, whether it completed, and the text
\* file its call wrote to
LogLine ==
    [url       |-> video_urls[i],
     completed |-> IsSome(ret),
     text_file |-> IF called \cap {"text_file_written", "text_file_truncated"} # {}
                   THEN Some(text_path(Get(safe_filename)))
                   ELSE None]

\* A mutant: the first failed item ends the loop.
BatchCollect_StopOnFailure ==
    /\ pc = "d_returned"
    /\ itemlog' = Append(itemlog, LogLine)
    /\ IF IsSome(ret)
       THEN results' = Append(results, Get(ret)) /\ i' = i + 1
       ELSE results' = results /\ i' = Len(video_urls) + 1
    /\ pc' = "batch_loop"
    /\ UNCHANGED <<ffmpeg, exit_code, args, config, generator, files, logged>>
    /\ UNCHANGED <<video_urls, video_url, itemVars, ret, called>>

\* lines 246-250, then the next iteration; a result is a non-empty dict,
\* so "if result" tests for None
BatchCollect ==
    /\ pc = "d_returned"
    /\ itemlog' = Append(itemlog, LogLine)
    /\ results' = IF IsSome(ret) THEN Append(results, Get(ret)) ELSE results
    /\ i' = i + 1
    /\ pc' = "batch_loop"
    /\ UNCHANGED <<ffmpeg, exit_code, args, config, generator, files, logged>>
    /\ UNCHANGED <<video_urls, video_url, itemVars, ret, called>>

(***************************************************************************)
(* The aggregate writers.  A CSV file is its rows, a JSON file the list    *)
(* it encodes.                                                             *)
(***************************************************************************)
csv_path == [dir |-> output_directory, name |-> <<"subtitles_results">>, suffix |-> ".csv"]
json_path == [dir |-> output_directory, name |-> <<"subtitles_results">>, suffix |-> ".json"]

\* the columns of the CSV file, processed_at left out as in the results
fieldnames == <<"title", "url", "duration", "transcript", "filename">>

save_results_csv(fs, report) ==
    write(fs, csv_path,
          IF report # <<>>
          THEN <<fieldnames>> \o
               [k \in 1..Len(report) |-> [f \in 1..Len(fieldnames) |-> report[k][fieldnames[f]]]]
          ELSE <<>>)

save_results_json(fs, report) == write(fs, json_path, report)

\* csv.DictReader on a file's rows: the records below the header row
csv_records(rows) == IF rows = <<>> THEN <<>> ELSE Tail(rows)

\* main, lines 397-409 and 427-439
MainBatchReport ==
    /\ pc = "batch_report"
    /\ IF results # <<>>
       THEN LET fmt == Get(args).output_format
                with_csv == IF fmt \in {"csv", "all"}
                            THEN save_results_csv(files, results) ELSE files
            IN  files' = IF fmt \in {"json", "all"}
                         THEN save_results_json(with_csv, results) ELSE with_csv
       ELSE files' = files
    /\ logged' = IF results # <<>>
                 THEN {"Batch processing completed!"}
                 ELSE {"No videos were successfully processed"}
    /\ Finish
    /\ UNCHANGED <<ffmpeg, args, config, generator, batchVars, callVars>>

(***************************************************************************)
(* SubtitleGenerator.generate_subtitles, statement by statement.           *)
(***************************************************************************)
\* line 152
G_GetVideoInfo ==
    /\ pc = "g_get_video_info"
    /\ called' = called \cup {"get_video_info"}
    /\ \/ pc' = "g_except" /\ UNCHANGED video_info
       \/ \E info \in VideoInfos :
            video_info' = Some(info) /\ pc' = "g_create_safe_filename"
    /\ UNCHANGED <<ffmpeg, exit_code, args, config, generator, files, logged>>
    /\ UNCHANGED <<batchVars, video_url, safe_filename, final_audio_path,
                   transcribed, ret>>

\* lines 153-158
G_CreateSafeFilename ==
    /\ pc = "g_create_safe_filename"
    /\ safe_filename' =
         Some(create_safe_filename(Get(video_info).title, config.max_filename_length))
    /\ pc' = "g_download_audio"
    /\ UNCHANGED <<ffmpeg, exit_code, args, config, generator, files, logged>>
    /\ UNCHANGED <<batchVars, video_url, video_info, final_audio_path,
                   transcribed, ret, called>>

\* line 159: final_audio_path is bound only when download_audio returns
G_DownloadAudio ==
    /\ pc = "g_download_audio"
    /\ called' = called \cup {"download_audio"}
    /\ \E outcome \in DownloadOutcomes :
        LET output_path == audio_path(Get(safe_filename))
        IN  /\ files' = download_audio_files(files, output_path, outcome)
            /\ IF outcome \in {"ok", "no_file"}
               THEN /\ final_audio_path' = Some(audio_file_path(output_path))
                    /\ pc' = "g_exists"
               ELSE /\ UNCHANGED final_audio_path
                    /\ pc' = "g_except"
    /\ UNCHANGED <<ffmpeg, exit_code, args, config, generator, logged>>
    /\ UNCHANGED <<batchVars, video_url, video_info, safe_filename,
                   transcribed, ret>>

\* lines 161-162
G_Exists ==
    /\ pc = "g_exists"
    /\ pc' = IF exists(files, Get(final_audio_path)) THEN "g_transcribe" ELSE "g_except"
    /\ UNCHANGED <<ffmpeg, exit_code, args, config, generator, files, logged>>
    /\ UNCHANGED <<batchVars, callVars>>

\* lines 164-165
G_Transcribe ==
    /\ pc = "g_transcribe"
    /\ called' = called \cup {"transcribe"}
    /\ \/ pc' = "g_except" /\ UNCHANGED transcribed
       \/ \E text \in Transcripts :
            transcribed' = Some(text) /\ pc' = "g_unlink"
    /\ UNCHANGED <<ffmpeg, exit_code, args, config, generator, files, logged>>
    /\ UNCHANGED <<batchVars, video_url, video_info, safe_filename,
                   final_audio_path, ret>>

\* line 167
G_Unlink ==
    /\ pc = "g_unlink"
    /\ files' = unlink(files, Get(final_audio_path))
    /\ pc' = "g_write_text"
    /\ UNCHANGED <<ffmpeg, exit_code, args, config, generator, logged>>
    /\ UNCHANGED <<batchVars, callVars>>

\* lines 169-170
G_WriteText ==
    /\ pc = "g_write_text"
    /\ \E outcome \in WriteOutcomes :
        /\ files' = write_text_files(files, text_path(Get(safe_filename)),
                                     Get(transcribed), outcome)
        /\ called' = called \cup {"write_text"}
                       \cup written(outcome)
        /\ pc' = IF outcome = "ok" THEN "g_return" ELSE "g_except"
    /\ UNCHANGED <<ffmpeg, exit_code, args, config, generator, logged>>
    /\ UNCHANGED <<batchVars, video_url, itemVars, ret>>

\* line 172
G_Return ==
    /\ pc = "g_return"
    /\ Return(Some(Get(transcribed)))
    /\ pc' = "g_returned"
    /\ UNCHANGED <<ffmpeg, exit_code, args, config, generator, files, logged>>
    /\ UNCHANGED <<batchVars, video_url, itemVars, called>>

\* lines 174-178
G_Except ==
    /\ pc = "g_except"
    /\ files' = IF IsSome(final_audio_path) /\ exists(files, Get(final_audio_path))
                THEN unlink(files, Get(final_audio_path))
                ELSE files
    /\ Return(None)
    /\ pc' = "g_returned"
    /\ UNCHANGED <<ffmpeg, exit_code, args, config, generator, logged>>
    /\ UNCHANGED <<batchVars, video_url, itemVars, called>>


\* main, lines 379-384 and 456-461: "if subtitles" is false for None and ""
MainReportSingle ==
    /\ pc = "g_returned"
    /\ logged' = IF IsSome(ret) /\ Get(ret) # ""
                 THEN {"Generated subtitles have been saved"}
                 ELSE {"Failed to generate subtitles."}
    /\ Finish
    /\ UNCHANGED <<ffmpeg, args, config, generator, files, batchVars>>
    /\ UNCHANGED <<video_url, itemVars, ret, called>>

Next ==
    \/ CheckInstallation
    \/ ParseArguments
    \/ InitGenerator
    \/ MainSingleUrl
    \/ MainInteractive
    \/ MainBatchFile
    \/ MainBatchUrls
    \/ BatchLoop
    \/ D_Validate
    \/ D_GetVideoInfo
    \/ D_CreateSafeFilename
    \/ D_DownloadAudio
    \/ D_Exists
    \/ D_Transcribe
    \/ D_Unlink
    \/ D_WriteText
    \/ D_Return
    \/ D_Except
    \/ BatchCollect
    \/ MainBatchReport
    \/ G_GetVideoInfo
    \/ G_CreateSafeFilename
    \/ G_DownloadAudio
    \/ G_Exists
    \/ G_Transcribe
    \/ G_Unlink
    \/ G_WriteText
    \/ G_Return
    \/ G_Except
    \/ MainReportSingle

Spec == Init /\ [][Next]_vars

(***************************************************************************)
(* The filename sanitizer on its own: every title up to MaxLen characters  *)
(* and the title of the documented example, under every maximum length up  *)
(* to one more than MaxLen and under the default.                          *)
(***************************************************************************)
SanitizeChars == {"a", " ", "-", "_", "!", "."}
ExampleTitle ==
    <<"M", "y", " ", "T", "a", "l", "k", ":", " ", "P", "a", "r", "t", " ", "1", "!">>
ExampleName ==
    <<"M", "y", "_", "T", "a", "l", "k", "_", "P", "a", "r", "t", "_", "1">>
SanitizeTitles == SeqsUpTo(SanitizeChars, MaxLen) \cup {ExampleTitle}

InitSanitize ==
    /\ ffmpeg = TRUE
    /\ pc = "d_create_safe_filename"
    /\ exit_code = None
    /\ args = None
    /\ config \in { [AppConfig EXCEPT !.max_filename_length = m] :
                      m \in (0..(MaxLen + 1)) \cup {max_filename_length} }
    /\ generator = TRUE
    /\ files = NoFiles
    /\ video_urls = <<UrlShort>>
    /\ i = 1
    /\ results = <<>>
    /\ video_url = UrlShort
    /\ video_info \in { Some([title |-> t, duration |-> None]) : t \in SanitizeTitles }
    /\ safe_filename = None
    /\ final_audio_path = None
    /\ transcribed = None
    /\ ret = None
    /\ called = {"get_video_info"}
    /\ itemlog = <<>>
    /\ logged = {}

NextSanitize == D_CreateSafeFilename

SpecSanitize == InitSanitize /\ [][NextSanitize]_vars

(***************************************************************************)
(* Properties.                                                             *)
(***************************************************************************)
DetailedPcs ==
    {"d_validate", "d_get_video_info", "d_create_safe_filename", "d_download_audio",
     "d_exists", "d_transcribe", "d_unlink", "d_write_text", "d_return", "d_except"}

BatchMode == IsSome(args) /\ (IsSome(Get(args).batch_file) \/ IsSome(Get(args).batch_urls))

\* the URL has one of the recognized host substrings
Recognized(url) == Contains(url, youtube_com) \/ Contains(url, youtu_be)

\* the position in the report of the k-th item of the batch, if it completed
ResultIndex(k) == Cardinality({j \in 1..k : itemlog[j].completed})

\* the audio artifact of the running call
DerivedAudioPath == audio_file_path(audio_path(Get(safe_filename)))

\* C1: when generate_single_subtitle_detailed returns, on whatever path, no
\* file exists at the audio path derived from the sanitized title.
C1_NoAudioLeftAtReturn ==
    (pc = "d_returned" /\ IsSome(safe_filename)) => ~exists(files, DerivedAudioPath)

\* C2: generate_batch_subtitles calls the item processor once per URL, in
\* input order and whatever the earlier items did, and returns the results of
\* exactly the items that succeeded, in input order.
C2_BatchReport ==
    /\ pc \in DetailedPcs \cup {"d_returned"} =>
         /\ i <= Len(video_urls)
         /\ video_url = strip(video_urls[i])
         /\ Len(itemlog) = i - 1
    /\ pc = "batch_loop" => Len(itemlog) = i - 1 /\ i <= Len(video_urls) + 1
    /\ pc \in DetailedPcs \cup {"d_returned", "batch_loop", "batch_report"} =>
         /\ \A k \in 1..Len(itemlog) : itemlog[k].url = video_urls[k]
         /\ Len(results) = ResultIndex(Len(itemlog))
         /\ \A k \in 1..Len(itemlog) :
              itemlog[k].completed => results[ResultIndex(k)].url = strip(video_urls[k])
    /\ pc = "batch_report" => Len(itemlog) = Len(video_urls)

C2_Witness ==
    /\ pc = "batch_report"
    /\ Len(video_urls) = 2
    /\ ~itemlog[1].completed
    /\ itemlog[1].text_file = None
    /\ Recognized(video_urls[1])
    /\ itemlog[2].completed
    /\ Len(results) = 1

\* C3: a title that sanitizes to the empty string fails the item before the
\* download: nothing is downloaded, transcribed or written and no result is
\* returned.
C3_EmptyFilenameFails ==
    (pc \in DetailedPcs \cup {"d_returned"} /\ safe_filename = Some(<<>>)) =>
        /\ called \subseteq {"get_video_info"}
        /\ ret = None
        /\ pc \notin {"d_exists", "d_transcribe", "d_unlink", "d_write_text", "d_return"}

\* C4: a call that returns None wrote nothing to a .txt file, and a .txt file
\* is written only after metadata, download, existence check and
\* transcription succeeded in the same call.
C4_TextOnlyOnSuccess ==
    /\ (pc = "d_returned" /\ ret = None) =>
          called \cap {"text_file_written", "text_file_truncated"} = {}
    /\ (pc \in DetailedPcs \cup {"d_returned"}
          /\ called \cap {"text_file_written", "text_file_truncated"} # {}) =>
          /\ {"get_video_info", "download_audio", "transcribe"} \subseteq called
          /\ IsSome(video_info) /\ IsSome(final_audio_path) /\ IsSome(transcribed)

\* C5: without ffmpeg the run ends with exit status 1 at the dependency
\* check: arguments are never parsed, the model is never loaded, the output
\* directory is never created and no item is touched.
C5_FailFast ==
    ~ffmpeg =>
        /\ pc \in {"check_installation", "exited"}
        /\ pc = "exited" => exit_code = Some(1)
        /\ args = None
        /\ ~generator
        /\ DOMAIN files = {}
        /\ called = {}
        /\ results = <<>> /\ itemlog = <<>> /\ logged = {}

C5_Witness == ~ffmpeg /\ pc = "exited" /\ exit_code = Some(1)

\* C6: a batch run that ends with an empty report under an aggregate output
\* format has written a CSV and a JSON file that parse to zero records.
C6_EmptyReportWritten ==
    (pc = "done" /\ BatchMode /\ results = <<>>) =>
        /\ Get(args).output_format \in {"csv", "all"} =>
             exists(files, csv_path) /\ csv_records(files[csv_path]) = <<>>
        /\ Get(args).output_format \in {"json", "all"} =>
             exists(files, json_path) /\ files[json_path] = <<>>

\* C7: create_safe_filename returns at most max_filename_length characters,
\* all of them alphanumeric, hyphen or underscore: the kept characters of the
\* title (alphanumerics, spaces, hyphens, underscores) in their order, each
\* space as an underscore, cut to the maximum length.
C7_SafeFilename ==
    (pc = "d_download_audio" /\ IsSome(safe_filename)) =>
        LET title  == Get(video_info).title
            name   == Get(safe_filename)
            kept   == {q \in 1..Len(title) : title[q] \in AlnumChars \cup {" ", "-", "_"}}
            pos(k) == CHOOSE q \in kept : Cardinality({r \in kept : r <= q}) = k
        IN  /\ Len(name) <= config.max_filename_length
            /\ \A k \in 1..Len(name) : name[k] \in AlnumChars \cup {"-", "_"}
            /\ Len(name) = Min(config.max_filename_length, Cardinality(kept))
            /\ \A k \in 1..Len(name) :
                 name[k] = IF title[pos(k)] = " " THEN "_" ELSE title[pos(k)]
            /\ (title = ExampleTitle /\ config.max_filename_length >= Len(ExampleName)) =>
                 name = ExampleName

C7_Witness ==
    /\ pc = "d_download_audio"
    /\ Get(video_info).title = <<" ", "!", "a">>
    /\ config.max_filename_length = 1
    /\ safe_filename = Some(<<"_">>)

\* C8: a URL without a recognized host substring is rejected by the item
\* processor before it invokes anything: it returns None, the item is logged
\* as failed and left out of the report, and the batch goes on.
C8_InvalidUrl ==
    /\ pc \in DetailedPcs \ {"d_validate"} => Recognized(video_url)
    /\ (pc = "d_returned" /\ ~Recognized(video_url)) => ret = None /\ called = {}
    /\ pc \in DetailedPcs \cup {"d_returned", "batch_loop", "batch_report"} =>
         /\ \A k \in 1..Len(itemlog) :
              ~Recognized(video_urls[k]) =>
                 ~itemlog[k].completed /\ itemlog[k].text_file = None
         /\ \A k \in 1..Len(results) : Recognized(results[k].url)
    /\ pc = "batch_report" => Len(itemlog) = Len(video_urls)

C8_Witness ==
    /\ pc = "batch_report"
    /\ Len(video_urls) = 2
    /\ ~Recognized(video_urls[1])
    /\ ~itemlog[1].completed
    /\ itemlog[2].completed
    /\ Len(results) = 1
    /\ DOMAIN files = {results[1].text_file}

\* C9: when two items of a batch complete with the same sanitized filename,
\* both are in the report in input order with the same text file path, and
\* once the batch is over that file holds the transcript of the later one
\* (no later item of the batch having written to it).
C9_LastWriteWins ==
    pc \in {"batch_report", "done"} =>
        \A a, b \in 1..Len(itemlog) :
            LET first  == results[ResultIndex(a)]
                second == results[ResultIndex(b)]
            IN  ( /\ a < b
                  /\ itemlog[a].completed /\ itemlog[b].completed
                  /\ first.filename = second.filename
                  /\ \A c \in (b + 1)..Len(itemlog) :
                        itemlog[c].text_file # Some(second.text_file) ) =>
                /\ ResultIndex(a) < ResultIndex(b)
                /\ first.url = strip(video_urls[a]) /\ second.url = strip(video_urls[b])
                /\ first.text_file = second.text_file
                /\ exists(files, second.text_file)
                /\ files[second.text_file] = second.transcript

C9_Witness ==
    /\ pc = "done"
    /\ Len(results) = 2
    /\ results[1].filename = results[2].filename
    /\ results[1].title # results[2].title
    /\ results[1].transcript = "hello"
    /\ results[2].transcript = "world"
    /\ files[results[1].text_file] = "world"

\* C10: in single-URL and interactive mode main logs "Failed to generate
\* subtitles." exactly when generate_subtitles did not write the transcript
\* to the text file.
C10_ReportAgrees ==
    (pc = "done" /\ "get_video_info" \in called /\ ~BatchMode) =>
        ("Failed to generate subtitles." \in logged <=> "text_file_written" \notin called)

====
